---- MODULE Spec2Model ----
(***************************************************************************)
(* SafeSeal (app.py): a Streamlit script that converts an uploaded office  *)
(* document to PDF with LibreOffice, rasterizes every page, stamps a tiled *)
(* rotated watermark on it and rebuilds an image-only PDF.                 *)
(*                                                                         *)
(* The model follows one browser session.  Widgets and st.session_state    *)
(* persist between script runs; everything else is local to one run of the *)
(* script and is rebuilt by the next run.  A click on "Start conversion"   *)
(* runs the handler of lines 222-264, which is followed statement group by *)
(* statement group through pc.                                             *)
(***************************************************************************)
EXTENDS Integers, Sequences, FiniteSets, TLC

(* ------------------------------ bounds -------------------------------- *)
MaxPages == 2      \* pages of a document
MaxPolls == 2      \* iterations of the polling loop of lines 163-171
MaxRest  == 1      \* lines left on the converter's stdout after it exits
MaxPdfs  == 2      \* .pdf files found in the output directory
MaxRuns  == 2      \* clicks that get past the checks of lines 223-228

(* ------------------------- program constants -------------------------- *)
PtPerInch == 72    \* points per inch, the 72.0 of line 126
SoftStep  == 2     \* line 168
SoftCap   == 90    \* line 168
LoBand    == 10    \* line 248
PageBand  == 90    \* line 248
Full      == 100   \* lines 184, 250, 257

NoBar  == -1       \* st.session_state["_pbar"] is None
NoPage == 0        \* no page index
NoDoc  == <<>>     \* no document
NoSize == <<0, 0>>  \* no image yet

Profiles == {"High", "Balanced", "Smallest"}
FileKinds == {"none", "pdf", "office"}
WmTexts == {"", "SLIDESEAL"}
PageSizes == {<<612, 792>>, <<595, 842>>}
Docs == UNION {[1..n -> PageSizes] : n \in 1..MaxPages}

Max(a, b) == IF a >= b THEN a ELSE b
Min(a, b) == IF a <= b THEN a ELSE b

(* ------------------------- pure parts of the code --------------------- *)

\* lines 211-215: dpi of the selected compression profile
ProfileDpi(p) == IF p = "High" THEN 180 ELSE IF p = "Smallest" THEN 100 ELSE 120

\* lines 211-215: JPEG quality of the selected compression profile
ProfileQuality(p) == IF p = "High" THEN 90 ELSE IF p = "Smallest" THEN 60 ELSE 75

\* lines 126-127: get_pixmap under Matrix(dpi/72, dpi/72) renders a page of
\* pts points into the smallest whole number of pixels that holds pts*dpi/72
PixDim(pts, d) == (pts * d + PtPerInch - 1) \div PtPerInch

PixSize(page, d) == <<PixDim(page[1], d), PixDim(page[2], d)>>

\* lines 132-133: the rectangle of the new page, in points
NewPageRect(pix) == <<pix[1], pix[2]>>

\* line 133-134: out.new_page appends the page at the end of the document
NewPageFront(o, rec) == <<rec>> \o o
NewPage(o, rec) == Append(o, rec)

\* line 168: soft progress while LibreOffice runs
SoftNext(s) == Min(s + SoftStep, SoftCap)

\* lines 248-250: the percentage page_progress writes
PagePct(i, t) == Min(LoBand + ((PageBand * i) \div Max(1, t)), Full)

\* line 114: rotate(45, expand=True).  The corners of the w x h canvas turn
\* about its centre; both extents of the turned canvas are (w+h)/sqrt(2), and
\* the new width is ceil(max x) - floor(min x): the least integer that is at
\* least (w+h)/sqrt(2) and has the parity of w (of h for the height).
RECURSIVE LeastFrom(_, _, _)
LeastFrom(l, s, par) ==
    IF 2 * l * l >= s * s /\ l % 2 = par THEN l ELSE LeastFrom(l + 1, s, par)

RotatedDim(side, other) == LeastFrom(((side + other) * 7) \div 10, side + other, side % 2)

RotatedSize(w, h) == <<RotatedDim(w, h), RotatedDim(h, w)>>

\* lines 116-117: the crop box (left, top, right, bottom)
CropBoxNoOffset(lw, lh, w, h) == <<(lw - w) \div 2, (lh - h) \div 2, w, h>>
CropBox(lw, lh, w, h) ==
    LET left == (lw - w) \div 2
        top  == (lh - h) \div 2
    IN <<left, top, left + w, top + h>>

\* line 117: Image.crop returns an image of (right-left) x (bottom-top)
CropSize(box) == <<box[3] - box[1], box[4] - box[2]>>

\* lines 108-117: whether the pixel of the cropped layer at the corner
\* (sx, sy) of the page (sx, sy in {-1, 1}; 0, 0 is the centre) is sampled
\* from inside the w x h canvas that line 108 allocates and lines 111-113
\* draw on.  Offsets are doubled and taken from the centre, which the crop
\* shares with the turned canvas; turning back by 45 degrees sends (dx, dy) to
\* ((dx+dy)/sqrt(2), (dy-dx)/sqrt(2)), which must fall within (-w, w) x (-h, h).
InCanvas(w, h, box, lw, lh, sx, sy) ==
    LET cx == (IF sx < 0 THEN 2 * box[1] + 1 ELSE IF sx > 0 THEN 2 * box[3] - 1
               ELSE box[1] + box[3]) - lw
        cy == (IF sy < 0 THEN 2 * box[2] + 1 ELSE IF sy > 0 THEN 2 * box[4] - 1
               ELSE box[2] + box[4]) - lh
    IN /\ (cx + cy) * (cx + cy) <= 2 * w * w
       /\ (cy - cx) * (cy - cx) <= 2 * h * h

Corners == {<<-1, -1>>, <<1, -1>>, <<-1, 1>>, <<1, 1>>}
Centre == <<0, 0>>

\* lines 103-117: the watermark layer of a w x h page: its size after the
\* crop, and the probe points (corners, centre) that lie in the drawn canvas
DrawTiledWatermark(w, h) ==
    LET rot == RotatedSize(w, h)
        box == CropBox(rot[1], rot[2], w, h)
    IN [size |-> CropSize(box),
        drawn |-> {c \in Corners \cup {Centre} :
                     InCanvas(w, h, box, rot[1], rot[2], c[1], c[2])}]

NoLayer == [size |-> NoSize, drawn |-> {}]

(* ------------------------------- state -------------------------------- *)
VARIABLES
    lo_bin,        \* LO_BIN is not None (line 33)
    uploaded,      \* the file uploader: "none", or the kind of the file
    profile,       \* the compression profile radio
    wm_text,       \* the watermark text input
    show_status,   \* st.session_state["_show_status"]
    logbuf,        \* st.session_state["_logbuf"], as its number of lines
    pbar,          \* the value the progress bar shows, NoBar when "_pbar" is None
    runs,          \* clicks so far that got past the checks of lines 223-228
    pc,            \* position of the script
    pdf_bytes,     \* the document to watermark: the point sizes of its pages
    soft,          \* convert_office_to_pdf_bytes: soft
    polls,         \* iterations of the polling loop so far
    conv,          \* what the converter did: <<exit code, .pdf files>>
    total,         \* pdf_to_imageonly_pdf_with_watermark: total
    idx,           \* ... idx
    pix,           \* ... (pix.width, pix.height)
    layer,         \* the watermark layer of the current page
    out,           \* ... out: the pages appended so far
    watermarked,   \* the bytes returned by the pipeline, <<>> before
    download,      \* the download button is on the page
    exc,           \* the exception in flight
    error,         \* what st.error of line 264 shows
    events,        \* this run's progress values and pipeline steps, in order
    failPage       \* the page in work when the exception was raised

widgets == <<uploaded, profile, wm_text>>
session == <<show_status, logbuf, pbar>>
convert == <<soft, polls, conv>>
pipeline == <<total, idx, pix, layer, out, watermarked>>
outcome == <<download, exc, error, failPage>>
vars == <<lo_bin, widgets, session, runs, pc, pdf_bytes, convert, pipeline,
          outcome, events>>

dpi == ProfileDpi(profile)
quality == ProfileQuality(profile)

NoExc == "none"
NoError == [cause |-> "none", page |-> NoPage]
NoConv == <<-1, -1>>

Resting == {"ready", "stopped", "done", "failed"}

\* the state a fresh run of the script starts from
FreshRun ==
    /\ pdf_bytes' = NoDoc
    /\ soft' = 0 /\ polls' = 0 /\ conv' = NoConv
    /\ total' = 0 /\ idx' = 0 /\ pix' = NoSize /\ layer' = NoLayer
    /\ out' = <<>> /\ watermarked' = <<>>
    /\ download' = FALSE /\ exc' = NoExc
    /\ failPage' = NoPage

Init ==
    /\ lo_bin \in BOOLEAN
    /\ uploaded = "none"
    /\ profile = "Balanced"
    /\ wm_text = "SLIDESEAL"
    /\ show_status = FALSE
    /\ logbuf = 0
    /\ pbar = NoBar
    /\ runs = 0
    /\ pc = "ready"
    /\ pdf_bytes = NoDoc
    /\ soft = 0 /\ polls = 0 /\ conv = NoConv
    /\ total = 0 /\ idx = 0 /\ pix = NoSize /\ layer = NoLayer
    /\ out = <<>> /\ watermarked = <<>>
    /\ download = FALSE /\ exc = NoExc /\ error = NoError
    /\ failPage = NoPage
    /\ events = <<>>

\* lines 83-86: _log_line adds one line to the buffer
LogLine(n) == logbuf' = logbuf + n

\* .progress(v) on the bar of st.session_state["_pbar"]
Ev(kind, a, b) == <<kind, a, b>>
SetBar(v) == pbar' = v /\ events' = Append(events, Ev("pbar", v, 0))

\* where an exception raised inside the try of line 236 lands
AfterFailureNextPage == "progress"
AfterFailure == "except"

\* an exception raised while page is in work (NoPage outside the loop)
Raise(cause, page) ==
    /\ pc' = AfterFailure
    /\ exc' = cause
    /\ failPage' = page

(* --------------------------- widgets and click ------------------------ *)

\* lines 193-197: a file is chosen or removed; the script runs again
Upload(k) ==
    /\ pc \in Resting
    /\ uploaded' = k
    /\ pc' = "ready"
    /\ FreshRun /\ error' = NoError /\ events' = <<>>
    /\ UNCHANGED <<lo_bin, profile, wm_text, session, runs>>

\* lines 199-207: a compression profile is chosen; the script runs again
SelectProfile(p) ==
    /\ pc \in Resting
    /\ profile' = p
    /\ pc' = "ready"
    /\ FreshRun /\ error' = NoError /\ events' = <<>>
    /\ UNCHANGED <<lo_bin, uploaded, wm_text, session, runs>>

\* line 208: the watermark text is edited; the script runs again
EditWatermark(t) ==
    /\ pc \in Resting
    /\ wm_text' = t
    /\ pc' = "ready"
    /\ FreshRun /\ error' = NoError /\ events' = <<>>
    /\ UNCHANGED <<lo_bin, uploaded, profile, session, runs>>

\* lines 226-228: the check of the watermark text
EmptyTextNeverRejected(t) == FALSE
EmptyText(t) == Len(t) = 0

\* lines 220-234: "Start conversion" is clicked
ClickStart ==
    /\ pc \in Resting
    /\ FreshRun
    /\ IF uploaded = "none"
       THEN /\ error' = [cause |-> "Please upload a document first.", page |-> NoPage]
            /\ pc' = "stopped"
            /\ events' = <<>>
            /\ UNCHANGED <<session, runs>>
       ELSE IF EmptyText(wm_text)
       THEN /\ error' = [cause |-> "Please provide a watermark text (1-15 characters).",
                         page |-> NoPage]
            /\ pc' = "stopped"
            /\ events' = <<>>
            /\ UNCHANGED <<session, runs>>
       ELSE /\ runs < MaxRuns
            /\ runs' = runs + 1
            /\ show_status' = TRUE
            /\ pbar' = (IF pbar = NoBar THEN 0 ELSE pbar)
            /\ events' = (IF pbar = NoBar THEN <<Ev("pbar", 0, 0)>> ELSE <<>>)
            /\ error' = NoError
            /\ pc' = "source"
            /\ UNCHANGED logbuf
    /\ UNCHANGED <<lo_bin, widgets>>

\* lines 237-244: the source of the PDF
Source ==
    /\ pc = "source"
    /\ LogLine(1)
    /\ IF uploaded = "pdf"
       THEN /\ pdf_bytes' \in Docs
            /\ pc' = "apply"
       ELSE /\ pdf_bytes' = pdf_bytes
            /\ pc' = "lo_launch"
    /\ UNCHANGED <<lo_bin, widgets, show_status, pbar, runs, convert, pipeline,
                   outcome, events>>

(* ------------------- convert_office_to_pdf_bytes ---------------------- *)

\* lines 145-162
Launch ==
    /\ pc = "lo_launch"
    /\ IF ~lo_bin
       THEN /\ Raise("LibreOffice is not available on this host.", NoPage)
            /\ UNCHANGED <<logbuf, soft>>
       ELSE /\ LogLine(1)
            /\ soft' = 0
            /\ pc' = "lo_poll"
            /\ UNCHANGED <<exc, failPage>>
    /\ UNCHANGED <<lo_bin, widgets, show_status, pbar, runs, pdf_bytes, polls, conv,
                   pipeline, download, error, events>>

\* lines 163-171: one turn of the loop while the converter runs; readline
\* gives a line of output (lines = 1) or nothing
Poll(lines) ==
    /\ pc = "lo_poll"
    /\ polls < MaxPolls
    /\ polls' = polls + 1
    /\ LogLine(lines)
    /\ soft' = SoftNext(soft)
    /\ SetBar(soft')
    /\ UNCHANGED <<lo_bin, widgets, show_status, runs, pc, pdf_bytes, conv, pipeline,
                   outcome>>

\* lines 176-182: what the exit code and the .pdf files found lead to
ConvOutcomeAnyCount(rc, n) == IF rc # 0 THEN "exit" ELSE "ok"
ConvOutcome(rc, n) == IF rc # 0 THEN "exit" ELSE IF n = 0 THEN "nopdf" ELSE "ok"

\* lines 172-186: the converter has exited with code rc, leaving rest lines
\* of output and n .pdf files in the output directory
Exited(rc, rest, n) ==
    /\ pc = "lo_poll"
    /\ conv' = <<rc, n>>
    /\ LogLine(rest + (IF ConvOutcome(rc, n) = "ok" THEN 1 ELSE 0))
    /\ IF ConvOutcome(rc, n) = "exit"
       THEN /\ SetBar(0)
            /\ Raise("LibreOffice exit code. See logs above.", NoPage)
            /\ UNCHANGED pdf_bytes
       ELSE IF ConvOutcome(rc, n) = "nopdf"
       THEN /\ Raise("No PDF produced by LibreOffice.", NoPage)
            /\ UNCHANGED <<pbar, events, pdf_bytes>>
       ELSE /\ SetBar(Full)
            /\ pdf_bytes' \in Docs
            /\ pc' = "apply"
            /\ UNCHANGED <<exc, failPage>>
    /\ UNCHANGED <<lo_bin, widgets, show_status, runs, soft, polls, pipeline,
                   download, error>>

(* --------------- pdf_to_imageonly_pdf_with_watermark ------------------ *)

\* line 124: the loop goes to the next page, or ends
LoopHeadShort(i, t) == IF i + 1 < t THEN "page" ELSE "serialize"
LoopHead(i, t) == IF i < t THEN "page" ELSE "serialize"

\* lines 246-251: the log line before the pipeline is called
Apply ==
    /\ pc = "apply"
    /\ LogLine(1)
    /\ pc' = "open"
    /\ UNCHANGED <<lo_bin, widgets, show_status, pbar, runs, pdf_bytes, convert,
                   pipeline, outcome, events>>

\* lines 121-123: the source is opened (or fitz.open raises), out is empty
Open(ok) ==
    /\ pc = "open"
    /\ IF ok
       THEN /\ total' = Len(pdf_bytes)
            /\ idx' = 0
            /\ out' = <<>>
            /\ pc' = LoopHead(0, total')
            /\ UNCHANGED <<exc, failPage>>
       ELSE /\ Raise("cannot open document", NoPage)
            /\ UNCHANGED <<total, idx, out>>
    /\ UNCHANGED <<lo_bin, widgets, session, runs, pdf_bytes, convert, pix, layer,
                   watermarked, download, error, events>>

\* lines 124-125: the next page is taken and its log line written
PageLog ==
    /\ pc = "page"
    /\ idx' = idx + 1
    /\ LogLine(1)
    /\ events' = Append(events, Ev("log", idx', total))
    /\ pc' = "rasterize"
    /\ UNCHANGED <<lo_bin, widgets, show_status, pbar, runs, pdf_bytes, convert,
                   total, pix, layer, out, watermarked, outcome>>

\* lines 126-128: the page is rendered at dpi (or get_pixmap raises)
Rasterize(ok) ==
    /\ pc = "rasterize"
    /\ IF ok
       THEN /\ pix' = PixSize(pdf_bytes[idx], dpi)
            /\ events' = Append(events, Ev("rasterize", idx, 0))
            /\ pc' = "watermark"
            /\ UNCHANGED <<exc, failPage>>
       ELSE /\ Raise("cannot render page", idx)
            /\ UNCHANGED <<pix, events>>
    /\ UNCHANGED <<lo_bin, widgets, session, runs, pdf_bytes, convert, total, idx,
                   layer, out, watermarked, download, error>>

\* line 129, lines 103-118: the layer is drawn, turned and cropped, and
\* composited on the page; alpha_composite raises when the sizes differ
Watermark(ok) ==
    /\ pc = "watermark"
    /\ IF ok
       THEN /\ layer' = DrawTiledWatermark(pix[1], pix[2])
            /\ IF layer'.size = pix
               THEN /\ events' = Append(events, Ev("watermark", idx, 0))
                    /\ pc' = "encode"
                    /\ UNCHANGED <<exc, failPage>>
               ELSE /\ Raise("images do not match", idx)
                    /\ UNCHANGED events
       ELSE /\ Raise("cannot draw watermark", idx)
            /\ UNCHANGED <<layer, events>>
    /\ UNCHANGED <<lo_bin, widgets, session, runs, pdf_bytes, convert, total, idx,
                   pix, out, watermarked, download, error>>

\* lines 130-131: the composite is saved as JPEG (or save raises)
Encode(ok) ==
    /\ pc = "encode"
    /\ IF ok
       THEN /\ events' = Append(events, Ev("encode", idx, 0))
            /\ pc' = "assemble"
            /\ UNCHANGED <<exc, failPage>>
       ELSE /\ Raise("cannot encode image", idx)
            /\ UNCHANGED events
    /\ UNCHANGED <<lo_bin, widgets, session, runs, pdf_bytes, convert, pipeline,
                   download, error>>

\* lines 132-134: a page is added to out and the image placed on it
Assemble(ok) ==
    /\ pc = "assemble"
    /\ IF ok
       THEN /\ out' = NewPage(out, [src |-> idx, rect |-> NewPageRect(pix),
                                     pix |-> pix])
            /\ events' = Append(events, Ev("append", idx, Len(out')))
            /\ pc' = "progress"
            /\ UNCHANGED <<exc, failPage>>
       ELSE /\ Raise("cannot insert image", idx)
            /\ UNCHANGED <<out, events>>
    /\ UNCHANGED <<lo_bin, widgets, session, runs, pdf_bytes, convert, total, idx,
                   pix, layer, watermarked, download, error>>

\* lines 135-136, 247-250: progress_cb(idx, total) writes the percentage
Progress ==
    /\ pc = "progress"
    /\ pbar' = PagePct(idx, total)
    /\ events' = events \o <<Ev("progress", idx, total), Ev("pbar", pbar', 0)>>
    /\ pc' = LoopHead(idx, total)
    /\ UNCHANGED <<lo_bin, widgets, show_status, logbuf, runs, pdf_bytes, convert,
                   pipeline, outcome>>

\* lines 137-139: out is serialized (or tobytes raises)
Serialize(ok) ==
    /\ pc = "serialize"
    /\ IF ok
       THEN /\ watermarked' = out
            /\ events' = Append(events, Ev("serialize", Len(out), 0))
            /\ pc' = "finish"
            /\ UNCHANGED <<exc, failPage>>
       ELSE /\ Raise("cannot save document", NoPage)
            /\ UNCHANGED <<watermarked, events>>
    /\ UNCHANGED <<lo_bin, widgets, session, runs, pdf_bytes, convert, total, idx,
                   pix, layer, out, download, error>>

\* lines 256-262: the bar is filled and the download button offered
Finish ==
    /\ pc = "finish"
    /\ SetBar(Full)
    /\ LogLine(1)
    /\ download' = TRUE
    /\ pc' = "done"
    /\ UNCHANGED <<lo_bin, widgets, show_status, runs, pdf_bytes, convert, pipeline,
                   exc, error, failPage>>

\* lines 263-264: the exception is shown as "Conversion failed: {e}"
ExceptNoCause ==
    /\ pc = "except"
    /\ error' = [cause |-> "Conversion failed", page |-> NoPage]
    /\ pc' = "failed"
    /\ UNCHANGED <<lo_bin, widgets, session, runs, pdf_bytes, convert, pipeline,
                   download, exc, failPage, events>>

Except ==
    /\ pc = "except"
    /\ error' = [cause |-> exc, page |-> NoPage]
    /\ pc' = "failed"
    /\ UNCHANGED <<lo_bin, widgets, session, runs, pdf_bytes, convert, pipeline,
                   download, exc, failPage, events>>

Next ==
    \/ \E k \in FileKinds : Upload(k)
    \/ \E p \in Profiles : SelectProfile(p)
    \/ \E t \in WmTexts : EditWatermark(t)
    \/ ClickStart
    \/ Source
    \/ Launch
    \/ \E lines \in 0..1 : Poll(lines)
    \/ \E rc \in 0..1, rest \in 0..MaxRest, n \in 0..MaxPdfs : Exited(rc, rest, n)
    \/ Apply
    \/ \E ok \in BOOLEAN : Open(ok)
    \/ PageLog
    \/ \E ok \in BOOLEAN : Rasterize(ok)
    \/ \E ok \in BOOLEAN : Watermark(ok)
    \/ \E ok \in BOOLEAN : Encode(ok)
    \/ \E ok \in BOOLEAN : Assemble(ok)
    \/ Progress
    \/ \E ok \in BOOLEAN : Serialize(ok)
    \/ Finish
    \/ Except

Spec == Init /\ [][Next]_vars

(* ------------------------------ properties ---------------------------- *)

IsBar(e) == e[1] = "pbar"
IsStep(e) == e[1] # "pbar"
\* the values written to the progress bar in this request, in order
BarValues == SelectSeq(events, IsBar)
\* the steps of the pipeline in this request, in order
Steps == SelectSeq(events, IsStep)
IsPrefix(a, b) == Len(a) <= Len(b) /\ a = SubSeq(b, 1, Len(a))
Failing == exc # NoExc

\* the steps of page k of n, and of a whole run over n pages
PageSteps(k, n) ==
    << <<"log", k, n>>, <<"rasterize", k, 0>>, <<"watermark", k, 0>>,
       <<"encode", k, 0>>, <<"append", k, k>>, <<"progress", k, n>> >>
RECURSIVE StepsUpTo(_, _)
StepsUpTo(k, n) == IF k = 0 THEN <<>> ELSE StepsUpTo(k - 1, n) \o PageSteps(k, n)
RunSteps(n) == Append(StepsUpTo(n, n), <<"serialize", n, 0>>)

\* C1: in a request (as long as nothing in it has failed) the values
\* written to the progress bar never decrease, all lie in 0..100, and on
\* success the last one is 100.
C1_ProgressMonotone ==
    LET b == BarValues
    IN /\ \A k \in 1..Len(b) : b[k][2] \in 0..100
       /\ ~Failing => \A k \in 1..(Len(b) - 1) : b[k][2] <= b[k + 1][2]
       /\ pc = "done" => Len(b) > 0 /\ b[Len(b)][2] = 100

\* C2: every output page measures, in points, its rendered pixel size
\* times 72/dpi; a 612x792 page rendered at 120 dpi gives a 612x792 page.
C2_PageSizeInPoints ==
    \A k \in 1..Len(out) :
        /\ out[k].rect[1] * dpi = out[k].pix[1] * PtPerInch
        /\ out[k].rect[2] * dpi = out[k].pix[2] * PtPerInch
        /\ (pdf_bytes[out[k].src] = <<612, 792>> /\ dpi = 120)
              => out[k].rect = <<612, 792>>

\* C3: a successful run over a document of n pages returns n pages, and
\* page k of the result is built from page k of the source.
C3_PagesPreserved ==
    pc \in {"finish", "done"} =>
        /\ Len(watermarked) = Len(pdf_bytes)
        /\ \A k \in 1..Len(watermarked) :
              /\ watermarked[k].src = k
              /\ watermarked[k].pix = PixSize(pdf_bytes[k], dpi)

C3_Witness == pc = "done" /\ Len(watermarked) >= 2 /\ pdf_bytes[1] # pdf_bytes[2]

\* C4: once a step has failed the run is over: no step of a later page is
\* taken, nothing is serialized and no download is offered; a download is
\* offered only for a result that holds every page of the source.
C4_NoPartialOutput ==
    /\ Failing =>
          /\ pc \in {"except", "failed"}
          /\ watermarked = <<>>
          /\ ~download
          /\ \A k \in 1..Len(Steps) : Steps[k][1] # "serialize"
          /\ failPage # NoPage =>
                /\ Len(out) = failPage - 1
                /\ \A k \in 1..Len(Steps) :
                      /\ Steps[k][2] <= failPage
                      /\ Steps[k][1] \in {"append", "progress"}
                            => Steps[k][2] < failPage
    /\ download =>
          /\ pc = "done" /\ ~Failing
          /\ Len(watermarked) = Len(pdf_bytes)

C4_Witness == pc = "failed" /\ failPage = 2 /\ Len(out) = 1 /\ total = 2

\* C5: a click with an empty watermark text is turned down before anything
\* starts: no conversion, no rasterized page, the status box is not
\* revealed, and no log line or progress value is written.
C5_EmptyTextRejected ==
    /\ [](wm_text = "" =>
            /\ pc \in {"ready", "stopped"}
            /\ events = <<>> /\ conv = NoConv /\ pix = NoSize /\ ~download)
    /\ [][(pc \in Resting /\ pc' # "ready" /\ wm_text = "" /\ uploaded # "none")
            => /\ pc' = "stopped"
               /\ show_status' = show_status
               /\ logbuf' = logbuf
               /\ pbar' = pbar
               /\ events' = <<>> /\ conv' = NoConv /\ pix' = NoSize]_vars

C5_Witness ==
    /\ pc = "stopped" /\ wm_text = "" /\ uploaded # "none"
    /\ ~show_status /\ pbar = NoBar /\ logbuf = 0

C7_CornersCovered ==
    layer # NoLayer => Corners \subseteq layer.drawn

\* C8 as stated: unless the converter exits with 0 and leaves exactly one
\* .pdf file, the request fails and the watermarking is never entered.
C8_ExactlyOnePdf ==
    (conv # NoConv /\ (conv[1] # 0 \/ conv[2] # 1)) =>
        /\ Failing /\ pc \in {"except", "failed"}
        /\ Steps = <<>> /\ pdf_bytes = NoDoc

\* C8 as amended: when the converter exits with a code other than 0 or
\* leaves no .pdf file, the request fails and the watermarking is never
\* entered; when it exits with 0 and leaves one or more .pdf files, the
\* request goes on to the watermarking with a document.
C8_NoPdfFails ==
    /\ (conv # NoConv /\ (conv[1] # 0 \/ conv[2] = 0)) =>
          /\ Failing /\ pc \in {"except", "failed"}
          /\ Steps = <<>> /\ pdf_bytes = NoDoc
    /\ (conv # NoConv /\ conv[1] = 0 /\ conv[2] >= 1) =>
          /\ pdf_bytes \in Docs
          /\ pc \notin {"lo_launch", "lo_poll"}
          /\ exc \notin {"LibreOffice exit code. See logs above.",
                         "No PDF produced by LibreOffice."}

C8_Witness == pc = "failed" /\ conv = <<0, 0>> /\ uploaded = "office"

\* C9: the pages are worked one at a time in source order, each through
\* log line, rasterize, watermark, encode, append, progress (k, n) with k
\* the number of pages appended; the output is serialized once, last.
C9_PageOrder ==
    /\ IsPrefix(Steps, RunSteps(total))
    /\ pc \in {"finish", "done"} => Steps = RunSteps(total)
    /\ pc = "progress" => Len(out) = idx

C9_Witness == pc = "done" /\ total >= 2 /\ Steps = RunSteps(total)

\* C10: the watermark layer has the pixel size of the rasterized page,
\* so the compositing never meets a mismatch of sizes.
C10_LayerSize ==
    /\ pc \in {"encode", "assemble", "progress"} => layer.size = pix
    /\ exc # "images do not match"

C10_Witness == pc = "encode" /\ layer # NoLayer /\ layer.size = <<1020, 1320>>

====
